---- MODULE Spec2Model ----
(***************************************************************************)
(* Session establishment of libaxolotl: SessionBuilder (sessionbuilder.cpp) *)
(* with the stores, the session record, the messages and the ratchet        *)
(* initializer it calls.  Keys are symbolic: a key pair and its public half *)
(* are the same token <<kind, owner, number>>.                              *)
(***************************************************************************)
EXTENDS Integers, Sequences, FiniteSets, TLC

\* ------------------------------------------------------------------ bounds
\* Entry-point calls of SessionBuilder in one behaviour.
MaxCalls == 2

\* ------------------------------------------------------------------ constants
CURRENT_VERSION == 3
MAX_VALUE == 16777215
INITIATE_FLAG == 1
RESPONSE_FLAG == 2
SIMULTAENOUS_INITIATE_FLAG == 4
ARCHIVED_STATES_MAX_LENGTH == 40
\* `return -1` from a function returning ulong: the all-ones value, which is no
\* pre-key id and is not MAX_VALUE.  It is what the caller tests for "absent".
NoPreKey == -1

\* ------------------------------------------------------------------ keys
Party == {"A", "B"}
Peer(p) == IF p = "A" THEN "B" ELSE "A"

EmptyKey == <<"none", "", 0>>
IdentityKeyOf(owner) == <<"IK", owner, 0>>
PreKeyOf(owner, id) == <<"OPK", owner, id>>
SignedPreKeyOf(owner, id) == <<"SPK", owner, id>>
GeneratedKey(owner, n) == <<"EK", owner, n>>
RegistrationIdOf(owner) == IF owner = "A" THEN 41 ELSE 42

\* Curve::calculateSignature / Curve::verifySignature, symbolically.
calculateSignature(signingKey, message) == [signer |-> signingKey, data |-> message]
verifySignature(signingKey, message, signature) ==
    signature.signer = signingKey /\ signature.data = message

Min(a, b) == IF a < b THEN a ELSE b
HasFlag(flags, flag) == (flags \div flag) % 2 = 1

\* ------------------------------------------------------------------ session state and record
BlankState ==
    [sessionVersion |-> 0,
     localRegistrationId |-> 0,
     remoteRegistrationId |-> 0,
     aliceBaseKey |-> EmptyKey,
     unacknowledgedPreKeyMessage |-> <<>>,
     pendingKeyExchange |-> <<>>,
     root |-> {}]

FreshRecord == [sessionState |-> BlankState, previousStates |-> <<>>]

isFresh(rec) == rec.sessionState = BlankState /\ rec.previousStates = <<>>

Front(s, n) == IF Len(s) <= n THEN s ELSE SubSeq(s, 1, n)

archiveCurrentState(rec) ==
    [sessionState |-> BlankState,
     previousStates |-> Front(<<rec.sessionState>> \o rec.previousStates,
                              ARCHIVED_STATES_MAX_LENGTH)]

StateMatches(st, version, aliceBaseKey) ==
    st.sessionVersion = version /\ st.aliceBaseKey = aliceBaseKey

hasSessionState(rec, version, aliceBaseKey) ==
    \/ StateMatches(rec.sessionState, version, aliceBaseKey)
    \/ \E i \in 1..Len(rec.previousStates) :
          StateMatches(rec.previousStates[i], version, aliceBaseKey)

hasPendingKeyExchange(st) == st.pendingKeyExchange # <<>>

setPendingKeyExchange(st, sequence, baseKey, ratchetKey, identityKey) ==
    [st EXCEPT !.pendingKeyExchange =
        <<[sequence |-> sequence, baseKey |-> baseKey,
           ratchetKey |-> ratchetKey, identityKey |-> identityKey]>>]

\* ------------------------------------------------------------------ ratchet initializer
\* What one side contributes to the key agreement.
Contribution(role, base, ratchet, identity, signed, oneTime) ==
    [role |-> role, base |-> base, ratchet |-> ratchet, identity |-> identity,
     signed |-> signed, oneTime |-> oneTime]

AliceMaterial(ourBaseKey, ourIdentityKey, theirIdentityKey, theirSignedPreKey, theirRatchetKey, theirOneTimePreKey) ==
    {Contribution("alice", ourBaseKey, EmptyKey, ourIdentityKey, EmptyKey, EmptyKey),
     Contribution("bob", EmptyKey, theirRatchetKey, theirIdentityKey,
                  theirSignedPreKey, theirOneTimePreKey)}

BobMaterial(ourIdentityKey, ourSignedPreKey, ourRatchetKey, ourOneTimePreKey, theirIdentityKey, theirBaseKey) ==
    {Contribution("alice", theirBaseKey, EmptyKey, theirIdentityKey, EmptyKey, EmptyKey),
     Contribution("bob", EmptyKey, ourRatchetKey, ourIdentityKey,
                  ourSignedPreKey, ourOneTimePreKey)}

SymmetricMaterial(ourBaseKey, ourRatchetKey, ourIdentityKey, theirBaseKey, theirRatchetKey, theirIdentityKey) ==
    {Contribution("symmetric", ourBaseKey, ourRatchetKey, ourIdentityKey, EmptyKey, EmptyKey),
     Contribution("symmetric", theirBaseKey, theirRatchetKey, theirIdentityKey,
                  EmptyKey, EmptyKey)}

initializeSession(st, version, material) ==
    [st EXCEPT !.sessionVersion = version, !.root = material]

\* ------------------------------------------------------------------ messages
KeyExchangeMessage(messageVersion, sequence, flags, baseKey, baseKeySignature, ratchetKey, identityKey) ==
    [version |-> messageVersion, maxVersion |-> CURRENT_VERSION, sequence |-> sequence,
     flags |-> flags, baseKey |-> baseKey, baseKeySignature |-> baseKeySignature,
     ratchetKey |-> ratchetKey, identityKey |-> identityKey]

\* A default-constructed KeyExchangeMessage.
EmptyKeyExchangeMessage ==
    [version |-> 0, maxVersion |-> 0, sequence |-> 0, flags |-> 0, baseKey |-> EmptyKey,
     baseKeySignature |-> calculateSignature(EmptyKey, EmptyKey),
     ratchetKey |-> EmptyKey, identityKey |-> EmptyKey]

isInitiate(m) == HasFlag(m.flags, INITIATE_FLAG)
isResponseForSimultaneousInitiate(m) == HasFlag(m.flags, SIMULTAENOUS_INITIATE_FLAG)

\* ------------------------------------------------------------------ state
VARIABLES
    sessionStore,       \* per party: <<>> or <<the record stored for the remote address>>
    identityStore,      \* per party: the identity pinned for the remote name, or EmptyKey
    preKeyStore,        \* per party: the ids of the one-time pre-keys in the store
    signedPreKeyStore,  \* per party: the ids of the signed pre-keys in the store
    record,             \* per party: <<>> or <<the caller's in-memory SessionRecord>>
    generated,          \* per party: key pairs Curve::generateKeyPair has handed out
    calls,              \* entry-point calls so far
    last,               \* the last entry-point call: input, outcome, store operations
    net,                \* key-exchange and first messages in flight between the parties
    log                 \* per party: what it has done in an exchange between the two

vars == <<sessionStore, identityStore, preKeyStore, signedPreKeyStore, record,
          generated, calls, last, net, log>>

stores == <<sessionStore, identityStore, preKeyStore, signedPreKeyStore>>

\* ------------------------------------------------------------------ stores
loadSession(p) == IF sessionStore[p] = <<>> THEN FreshRecord ELSE sessionStore[p][1]
containsSession(p) == sessionStore[p] # <<>>
containsPreKey(p, id) == id \in preKeyStore[p]
containsSignedPreKey(p, id) == id \in signedPreKeyStore[p]
isTrustedIdentity(p, key) == identityStore[p] = EmptyKey \/ identityStore[p] = key
getIdentityKeyPair(p) == IdentityKeyOf(p)
getLocalRegistrationId(p) == RegistrationIdOf(p)
generateKeyPair(p, n) == GeneratedKey(p, generated[p] + n)

\* ------------------------------------------------------------------ outcome of a call
\* err: "none" or the exception thrown; retId / retMsg: the value returned;
\* ops: the store operations in the order the code performs them; rec: the
\* SessionRecord the call worked on, as it leaves it; key: the identity it
\* saves; gen: key pairs it generated.
Outcome(err, retId, retMsg, ops, rec, key, gen) ==
    [err |-> err, retId |-> retId, retMsg |-> retMsg, ops |-> ops, rec |-> rec,
     key |-> key, gen |-> gen]

Thrown(err, ops, rec, gen) ==
    Outcome(err, NoPreKey, EmptyKeyExchangeMessage, ops, rec, EmptyKey, gen)

\* ------------------------------------------------------------------ inbound first message
\* The values the message's pre-key id is compared with are unsigned.
V3LoadsOneTimePreKey(message) == message.preKeyId >= 0
V2LacksPreKeyId(message) == message.preKeyId < 0

ReturnedPreKeyId(message) ==
    IF message.preKeyId # MAX_VALUE THEN message.preKeyId ELSE NoPreKey

\* Faulty variant: the duplicate-establishment guard never fires.
V3AlreadyEstablished_Never(sessionRecord, message) == FALSE

\* The guard that opens processV3.
V3AlreadyEstablished(sessionRecord, message) ==
    hasSessionState(sessionRecord, message.messageVersion, message.baseKey)

\* Faulty variant: a missing pre-key alone lets the message fall through.
V2AlreadyProcessed_NoSessionTest(p, message) == ~containsPreKey(p, message.preKeyId)

\* The guard of processV2 that lets the bundled message fall through.
V2AlreadyProcessed(p, message) ==
    ~containsPreKey(p, message.preKeyId) /\ containsSession(p)

\* Archive if not fresh, initialize, then the three setters, on the record.
InstallBobSession(p, sessionRecord, message, material) ==
    LET archived == IF ~isFresh(sessionRecord) THEN archiveCurrentState(sessionRecord)
                    ELSE sessionRecord
        st == initializeSession(archived.sessionState, message.messageVersion, material)
    IN  [archived EXCEPT !.sessionState =
            [st EXCEPT !.localRegistrationId = getLocalRegistrationId(p),
                       !.remoteRegistrationId = message.registrationId,
                       !.aliceBaseKey = message.baseKey]]

\* Faulty variant: the record is archived before the one-time pre-key is loaded.
processV3_ArchiveFirst(p, sessionRecord, message) ==
    IF V3AlreadyEstablished(sessionRecord, message)
    THEN Outcome("none", NoPreKey, EmptyKeyExchangeMessage, <<>>, sessionRecord, EmptyKey, 0)
    ELSE IF ~containsSignedPreKey(p, message.signedPreKeyId)
    THEN Thrown("InvalidKeyId", <<"loadSignedPreKey">>, sessionRecord, 0)
    ELSE IF V3LoadsOneTimePreKey(message) /\ ~containsPreKey(p, message.preKeyId)
    THEN Thrown("InvalidKeyId", <<"loadSignedPreKey", "getIdentityKeyPair", "loadPreKey">>,
                IF ~isFresh(sessionRecord) THEN archiveCurrentState(sessionRecord)
                ELSE sessionRecord, 0)
    ELSE
      LET ourSignedPreKey == SignedPreKeyOf(p, message.signedPreKeyId)
          ourOneTimePreKey == IF V3LoadsOneTimePreKey(message)
                              THEN PreKeyOf(p, message.preKeyId) ELSE EmptyKey
          material == BobMaterial(getIdentityKeyPair(p), ourSignedPreKey, ourSignedPreKey,
                                  ourOneTimePreKey, message.identityKey, message.baseKey)
      IN  Outcome("none", ReturnedPreKeyId(message), EmptyKeyExchangeMessage,
                  <<"loadSignedPreKey", "getIdentityKeyPair">>
                    \o (IF V3LoadsOneTimePreKey(message) THEN <<"loadPreKey">> ELSE <<>>)
                    \o <<"getLocalRegistrationId">>,
                  InstallBobSession(p, sessionRecord, message, material), EmptyKey, 0)

processV3(p, sessionRecord, message) ==
    IF V3AlreadyEstablished(sessionRecord, message)
    THEN Outcome("none", NoPreKey, EmptyKeyExchangeMessage, <<>>, sessionRecord, EmptyKey, 0)
    ELSE IF ~containsSignedPreKey(p, message.signedPreKeyId)
    THEN Thrown("InvalidKeyId", <<"loadSignedPreKey">>, sessionRecord, 0)
    ELSE IF V3LoadsOneTimePreKey(message) /\ ~containsPreKey(p, message.preKeyId)
    THEN Thrown("InvalidKeyId", <<"loadSignedPreKey", "getIdentityKeyPair", "loadPreKey">>,
                sessionRecord, 0)
    ELSE
      LET ourSignedPreKey == SignedPreKeyOf(p, message.signedPreKeyId)
          ourOneTimePreKey == IF V3LoadsOneTimePreKey(message)
                              THEN PreKeyOf(p, message.preKeyId) ELSE EmptyKey
          material == BobMaterial(getIdentityKeyPair(p), ourSignedPreKey, ourSignedPreKey,
                                  ourOneTimePreKey, message.identityKey, message.baseKey)
      IN  Outcome("none", ReturnedPreKeyId(message), EmptyKeyExchangeMessage,
                  <<"loadSignedPreKey", "getIdentityKeyPair">>
                    \o (IF V3LoadsOneTimePreKey(message) THEN <<"loadPreKey">> ELSE <<>>)
                    \o <<"getLocalRegistrationId">>,
                  InstallBobSession(p, sessionRecord, message, material), EmptyKey, 0)

processV2(p, sessionRecord, message) ==
    IF V2LacksPreKeyId(message)
    THEN Thrown("InvalidKeyId", <<>>, sessionRecord, 0)
    ELSE IF V2AlreadyProcessed(p, message)
    THEN Outcome("none", NoPreKey, EmptyKeyExchangeMessage,
                 <<"containsPreKey", "containsSession">>, sessionRecord, EmptyKey, 0)
    ELSE
      LET checks == IF containsPreKey(p, message.preKeyId) THEN <<"containsPreKey">>
                    ELSE <<"containsPreKey", "containsSession">>
      IN  IF ~containsPreKey(p, message.preKeyId)
          THEN Thrown("InvalidKeyId", checks \o <<"loadPreKey">>, sessionRecord, 0)
          ELSE
            LET ourPreKey == PreKeyOf(p, message.preKeyId)
                material == BobMaterial(getIdentityKeyPair(p), ourPreKey, ourPreKey,
                                        EmptyKey, message.identityKey, message.baseKey)
            IN  Outcome("none", ReturnedPreKeyId(message), EmptyKeyExchangeMessage,
                        checks \o <<"loadPreKey", "getIdentityKeyPair",
                                    "getLocalRegistrationId">>,
                        InstallBobSession(p, sessionRecord, message, material), EmptyKey, 0)

PreKeyMessageTrusted(p, message) == isTrustedIdentity(p, message.identityKey)

\* Faulty variant: the builder commits the record itself.
process_PreKeyWhisperMessage_Committing(p, sessionRecord, message) ==
    IF ~PreKeyMessageTrusted(p, message)
    THEN Thrown("UntrustedIdentity", <<"isTrustedIdentity">>, sessionRecord, 0)
    ELSE
      LET r == CASE message.messageVersion = 2 -> processV2(p, sessionRecord, message)
                 [] message.messageVersion = 3 -> processV3(p, sessionRecord, message)
                 [] OTHER -> Thrown("InvalidMessage", <<>>, sessionRecord, 0)
      IN  IF r.err # "none"
          THEN [r EXCEPT !.ops = <<"isTrustedIdentity">> \o r.ops]
          ELSE [r EXCEPT !.ops = <<"isTrustedIdentity">> \o r.ops
                                    \o <<"storeSession", "saveIdentity">>,
                         !.key = message.identityKey]

process_PreKeyWhisperMessage(p, sessionRecord, message) ==
    IF ~PreKeyMessageTrusted(p, message)
    THEN Thrown("UntrustedIdentity", <<"isTrustedIdentity">>, sessionRecord, 0)
    ELSE
      LET r == CASE message.messageVersion = 2 -> processV2(p, sessionRecord, message)
                 [] message.messageVersion = 3 -> processV3(p, sessionRecord, message)
                 [] OTHER -> Thrown("InvalidMessage", <<>>, sessionRecord, 0)
      IN  IF r.err # "none"
          THEN [r EXCEPT !.ops = <<"isTrustedIdentity">> \o r.ops]
          ELSE [r EXCEPT !.ops = <<"isTrustedIdentity">> \o r.ops \o <<"saveIdentity">>,
                         !.key = message.identityKey]

\* ------------------------------------------------------------------ process(PreKeyBundle)
\* Faulty variant: the trust check is skipped.
BundleTrusted_Skipped(p, preKey) == TRUE

BundleTrusted(p, preKey) == isTrustedIdentity(p, preKey.identityKey)

\* Faulty variant: the signature on the signed pre-key is not verified.
BundleSignatureBad_Unverified(preKey) == FALSE

BundleSignatureBad(preKey) ==
    /\ preKey.signedPreKey # EmptyKey
    /\ ~verifySignature(preKey.identityKey, preKey.signedPreKey,
                        preKey.signedPreKeySignature)

BundleHasNoKeys(preKey) == preKey.signedPreKey = EmptyKey /\ preKey.preKey = EmptyKey

supportsV3(preKey) == preKey.signedPreKey # EmptyKey

\* Faulty variant: the bundle path always negotiates version 3.
BundleSessionVersion_Always3(preKey) == 3

BundleSessionVersion(preKey) == IF supportsV3(preKey) THEN 3 ELSE 2

\* Faulty variant: the identity is pinned before the session is stored.
CommitOps_PinFirst == <<"saveIdentity", "storeSession">>

\* The two store mutations that end a successful establishment, in code order.
CommitOps == <<"storeSession", "saveIdentity">>

InstallAliceSession(p, sessionRecord, preKey, ourBaseKey) ==
    LET theirSignedPreKey == IF supportsV3(preKey) THEN preKey.signedPreKey
                             ELSE preKey.preKey
        theirOneTimePreKey == preKey.preKey
        theirOneTimePreKeyId == IF theirOneTimePreKey = EmptyKey THEN -1
                                ELSE preKey.preKeyId
        material == AliceMaterial(ourBaseKey, getIdentityKeyPair(p), preKey.identityKey,
                                  theirSignedPreKey, theirSignedPreKey,
                                  IF supportsV3(preKey) THEN theirOneTimePreKey
                                  ELSE EmptyKey)
        archived == IF ~isFresh(sessionRecord) THEN archiveCurrentState(sessionRecord)
                    ELSE sessionRecord
        st == initializeSession(archived.sessionState, BundleSessionVersion(preKey),
                                material)
    IN  [archived EXCEPT !.sessionState =
            [st EXCEPT !.unacknowledgedPreKeyMessage =
                           <<[preKeyId |-> theirOneTimePreKeyId,
                              signedPreKeyId |-> preKey.signedPreKeyId,
                              baseKey |-> ourBaseKey]>>,
                       !.localRegistrationId = getLocalRegistrationId(p),
                       !.remoteRegistrationId = preKey.registrationId,
                       !.aliceBaseKey = ourBaseKey]]

process_PreKeyBundle(p, preKey) ==
    IF ~BundleTrusted(p, preKey)
    THEN Thrown("UntrustedIdentity", <<"isTrustedIdentity">>, FreshRecord, 0)
    ELSE IF BundleSignatureBad(preKey)
    THEN Thrown("InvalidKey", <<"isTrustedIdentity">>, FreshRecord, 0)
    ELSE IF BundleHasNoKeys(preKey)
    THEN Thrown("InvalidKey", <<"isTrustedIdentity">>, FreshRecord, 0)
    ELSE
      LET ourBaseKey == generateKeyPair(p, 0)
      IN  Outcome("none", NoPreKey, EmptyKeyExchangeMessage,
                  <<"isTrustedIdentity", "loadSession", "getIdentityKeyPair",
                    "getLocalRegistrationId">> \o CommitOps,
                  InstallAliceSession(p, loadSession(p), preKey, ourBaseKey),
                  preKey.identityKey, 1)

\* ------------------------------------------------------------------ process()
\* Faulty variant: the record is archived before the pending exchange is set.
process_void_Archiving(p, sequence) ==
    LET baseKey == generateKeyPair(p, 0)
        ratchetKey == generateKeyPair(p, 1)
        identityKey == getIdentityKeyPair(p)
        sessionRecord == IF ~isFresh(loadSession(p))
                         THEN archiveCurrentState(loadSession(p)) ELSE loadSession(p)
    IN  Outcome("none", NoPreKey,
                KeyExchangeMessage(2, sequence, INITIATE_FLAG, baseKey,
                                   calculateSignature(identityKey, baseKey),
                                   ratchetKey, identityKey),
                <<"getIdentityKeyPair", "loadSession", "storeSession">>,
                [sessionRecord EXCEPT !.sessionState =
                    setPendingKeyExchange(sessionRecord.sessionState, sequence,
                                          baseKey, ratchetKey, identityKey)],
                EmptyKey, 2)

process_void(p, sequence) ==
    LET flags == INITIATE_FLAG
        baseKey == generateKeyPair(p, 0)
        ratchetKey == generateKeyPair(p, 1)
        identityKey == getIdentityKeyPair(p)
        baseKeySignature == calculateSignature(identityKey, baseKey)
        sessionRecord == loadSession(p)
    IN  Outcome("none", NoPreKey,
                KeyExchangeMessage(2, sequence, flags, baseKey, baseKeySignature,
                                   ratchetKey, identityKey),
                <<"getIdentityKeyPair", "loadSession", "storeSession">>,
                [sessionRecord EXCEPT !.sessionState =
                    setPendingKeyExchange(sessionRecord.sessionState, sequence,
                                          baseKey, ratchetKey, identityKey)],
                EmptyKey, 2)

\* ------------------------------------------------------------------ process(KeyExchangeMessage)
InitiateSignatureBad(message) ==
    /\ message.version >= 3
    /\ ~verifySignature(message.identityKey, message.baseKey, message.baseKeySignature)

\* Faulty variant: the pending keys are reused without the flag.
InitiateOurKeys_Unflagged(p, sessionRecord) ==
    IF ~hasPendingKeyExchange(sessionRecord.sessionState)
    THEN [identityKey |-> getIdentityKeyPair(p), baseKey |-> generateKeyPair(p, 0),
          ratchetKey |-> generateKeyPair(p, 1), flags |-> RESPONSE_FLAG, gen |-> 2]
    ELSE LET pending == sessionRecord.sessionState.pendingKeyExchange[1]
         IN  [identityKey |-> pending.identityKey, baseKey |-> pending.baseKey,
              ratchetKey |-> pending.ratchetKey, flags |-> RESPONSE_FLAG, gen |-> 0]

\* Faulty variant: processInitiate ignores the pending key exchange.
InitiateOurKeys_AlwaysFresh(p, sessionRecord) ==
    [identityKey |-> getIdentityKeyPair(p), baseKey |-> generateKeyPair(p, 0),
     ratchetKey |-> generateKeyPair(p, 1), flags |-> RESPONSE_FLAG, gen |-> 2]

\* Our identity, base and ratchet keys in processInitiate, the flags of the
\* response, and the key pairs generated.
InitiateOurKeys(p, sessionRecord) ==
    IF ~hasPendingKeyExchange(sessionRecord.sessionState)
    THEN [identityKey |-> getIdentityKeyPair(p), baseKey |-> generateKeyPair(p, 0),
          ratchetKey |-> generateKeyPair(p, 1), flags |-> RESPONSE_FLAG, gen |-> 2]
    ELSE LET pending == sessionRecord.sessionState.pendingKeyExchange[1]
         IN  [identityKey |-> pending.identityKey, baseKey |-> pending.baseKey,
              ratchetKey |-> pending.ratchetKey,
              flags |-> RESPONSE_FLAG + SIMULTAENOUS_INITIATE_FLAG, gen |-> 0]

NegotiatedVersion(message) == Min(message.maxVersion, CURRENT_VERSION)

processInitiate(p, message) ==
    LET sessionRecord == loadSession(p)
    IN  IF InitiateSignatureBad(message)
        THEN Thrown("InvalidKey", <<"loadSession">>, sessionRecord, 0)
        ELSE
          LET ours == InitiateOurKeys(p, sessionRecord)
              material == SymmetricMaterial(ours.baseKey, ours.ratchetKey, ours.identityKey,
                                            message.baseKey, message.ratchetKey,
                                            message.identityKey)
              archived == IF ~isFresh(sessionRecord)
                          THEN archiveCurrentState(sessionRecord) ELSE sessionRecord
              st == initializeSession(archived.sessionState, NegotiatedVersion(message),
                                      material)
              baseKeySignature == calculateSignature(ours.identityKey, ours.baseKey)
          IN  Outcome("none", NoPreKey,
                      KeyExchangeMessage(st.sessionVersion, message.sequence, ours.flags,
                                         ours.baseKey, baseKeySignature, ours.ratchetKey,
                                         ours.identityKey),
                      <<"loadSession">>
                        \o (IF ours.gen > 0 THEN <<"getIdentityKeyPair">> ELSE <<>>)
                        \o CommitOps,
                      [archived EXCEPT !.sessionState = st], message.identityKey, ours.gen)

\* Faulty variant: the sequence number of the pending exchange is not compared.
ResponseIsStale_NoSequenceTest(sessionState, message) ==
    ~hasPendingKeyExchange(sessionState)

\* The test that opens processResponse.
ResponseIsStale(sessionState, message) ==
    \/ ~hasPendingKeyExchange(sessionState)
    \/ sessionState.pendingKeyExchange[1].sequence # message.sequence

\* Faulty variant: the session is stored before the signature is checked.
ResponseFinish_StoreFirst(sessionRecord, message) ==
    IF /\ sessionRecord.sessionState.sessionVersion >= 3
       /\ ~verifySignature(message.identityKey, message.baseKey,
                           message.baseKeySignature)
    THEN Thrown("InvalidKey", <<"loadSession", "storeSession">>, sessionRecord, 0)
    ELSE Outcome("none", NoPreKey, EmptyKeyExchangeMessage,
                 <<"loadSession">> \o <<"storeSession", "saveIdentity">>, sessionRecord,
                 message.identityKey, 0)

\* The end of processResponse: the signature check on the initialized session,
\* then the commit.
ResponseFinish(sessionRecord, message) ==
    IF /\ sessionRecord.sessionState.sessionVersion >= 3
       /\ ~verifySignature(message.identityKey, message.baseKey,
                           message.baseKeySignature)
    THEN Thrown("InvalidKey", <<"loadSession">>, sessionRecord, 0)
    ELSE Outcome("none", NoPreKey, EmptyKeyExchangeMessage,
                 <<"loadSession">> \o CommitOps, sessionRecord, message.identityKey, 0)

\* Faulty variant: the session is initialized in the state that holds the
\* pending exchange, without archiving it.
processResponse_NoArchive(p, message) ==
    LET sessionRecord == loadSession(p)
        sessionState == sessionRecord.sessionState
    IN  IF ResponseIsStale(sessionState, message)
        THEN IF ~isResponseForSimultaneousInitiate(message)
             THEN Thrown("StaleKeyExchange", <<"loadSession">>, sessionRecord, 0)
             ELSE Outcome("none", NoPreKey, EmptyKeyExchangeMessage, <<"loadSession">>,
                          sessionRecord, EmptyKey, 0)
        ELSE
          LET pending == sessionState.pendingKeyExchange[1]
              material == SymmetricMaterial(pending.baseKey, pending.ratchetKey,
                                            pending.identityKey, message.baseKey,
                                            message.ratchetKey, message.identityKey)
              st == initializeSession(sessionState, NegotiatedVersion(message), material)
          IN  ResponseFinish([sessionRecord EXCEPT !.sessionState = st], message)

processResponse(p, message) ==
    LET sessionRecord == loadSession(p)
        sessionState == sessionRecord.sessionState
    IN  IF ResponseIsStale(sessionState, message)
        THEN IF ~isResponseForSimultaneousInitiate(message)
             THEN Thrown("StaleKeyExchange", <<"loadSession">>, sessionRecord, 0)
             ELSE Outcome("none", NoPreKey, EmptyKeyExchangeMessage, <<"loadSession">>,
                          sessionRecord, EmptyKey, 0)
        ELSE
          LET pending == sessionState.pendingKeyExchange[1]
              material == SymmetricMaterial(pending.baseKey, pending.ratchetKey,
                                            pending.identityKey, message.baseKey,
                                            message.ratchetKey, message.identityKey)
              archived == IF ~isFresh(sessionRecord)
                          THEN archiveCurrentState(sessionRecord) ELSE sessionRecord
              st == initializeSession(archived.sessionState, NegotiatedVersion(message),
                                      material)
          IN  ResponseFinish([archived EXCEPT !.sessionState = st], message)

\* Faulty variant: process(KeyExchangeMessage) skips the trust check.
KeyExchangeTrusted_Skipped(p, message) == TRUE

KeyExchangeTrusted(p, message) == isTrustedIdentity(p, message.identityKey)

process_KeyExchangeMessage(p, message) ==
    IF ~KeyExchangeTrusted(p, message)
    THEN Thrown("UntrustedIdentity", <<"isTrustedIdentity">>, FreshRecord, 0)
    ELSE LET r == IF isInitiate(message) THEN processInitiate(p, message)
                  ELSE processResponse(p, message)
         IN  [r EXCEPT !.ops = <<"isTrustedIdentity">> \o r.ops]

\* ------------------------------------------------------------------ effect of a call
Has(ops, name) == \E i \in 1..Len(ops) : ops[i] = name
IsMutation(op) == op \in {"storeSession", "saveIdentity"}

\* The places where the process can die between two store mutations of one call.
CrashPoints(ops) ==
    {n \in 1..Len(ops) : /\ IsMutation(ops[n])
                         /\ \E j \in (n + 1)..Len(ops) : IsMutation(ops[j])}

\* The call performs the first n of its store operations (all of them unless it
\* dies in between); the stores change as the performed mutations say.
Finish(p, call, input, r, n) ==
    LET done == SubSeq(r.ops, 1, n)
    IN  /\ sessionStore' = IF Has(done, "storeSession")
                           THEN [sessionStore EXCEPT ![p] = <<r.rec>>] ELSE sessionStore
        /\ identityStore' = IF Has(done, "saveIdentity")
                            THEN [identityStore EXCEPT ![p] = r.key] ELSE identityStore
        /\ generated' = [generated EXCEPT ![p] = @ + r.gen]
        /\ calls' = calls + 1
        /\ last' = [party |-> p, call |-> call, input |-> input,
                    err |-> IF n < Len(r.ops) THEN "crash" ELSE r.err,
                    retId |-> r.retId, retMsg |-> r.retMsg, ops |-> done]
        /\ UNCHANGED <<preKeyStore, signedPreKeyStore>>

NoCall ==
    [party |-> "", call |-> "none", input |-> <<>>, err |-> "none", retId |-> NoPreKey,
     retMsg |-> EmptyKeyExchangeMessage, ops |-> <<>>]

\* ------------------------------------------------------------------ inputs
Local == {"A"}
Intruder == "X"
PresentedIdentities(p) == {IdentityKeyOf(Peer(p)), IdentityKeyOf(Intruder)}
RegistrationIds == {42, 43}
SequenceNumbers == {1, 2}

\* A bundle without a signed pre-key carries no signature to tell apart.
Bundles(p) ==
    {b \in [registrationId : RegistrationIds, preKeyId : {1},
            preKey : {PreKeyOf(Peer(p), 1), EmptyKey}, signedPreKeyId : {7},
            signedPreKey : {SignedPreKeyOf(Peer(p), 7), EmptyKey},
            signedPreKeySignature :
                {calculateSignature(signer, SignedPreKeyOf(Peer(p), 7)) :
                    signer \in PresentedIdentities(p)},
            identityKey : PresentedIdentities(p)] :
        b.signedPreKey = EmptyKey =>
            b.signedPreKeySignature.signer = IdentityKeyOf(Peer(p))}

\* Version 2 has no signed pre-key id; an unknown version is rejected whatever
\* else the message holds.
PreKeyWhisperMessages(p) ==
    {m \in [messageVersion : {2, 3, 4}, registrationId : {42},
            preKeyId : {1, 2, MAX_VALUE}, signedPreKeyId : {7, 8},
            baseKey : {GeneratedKey(Peer(p), 0), GeneratedKey(Peer(p), 1)},
            identityKey : PresentedIdentities(p)] :
        /\ m.messageVersion = 2 => m.signedPreKeyId = 7
        /\ m.messageVersion = 4 =>
              m.signedPreKeyId = 7 /\ m.preKeyId = 1 /\ m.baseKey = GeneratedKey(Peer(p), 0)}

\* The message version decides only whether processInitiate verifies the
\* signature, so a response comes with one message version per maxVersion.  The
\* builder takes maxVersion as the message gives it: a message of version 2 may
\* name a maxVersion below its own version, and then its signature is not looked
\* at.
KeyExchangeMessages(p) ==
    {m \in [version : {2, 3}, maxVersion : {1, 2, 3}, sequence : SequenceNumbers,
            flags : {INITIATE_FLAG, RESPONSE_FLAG,
                     RESPONSE_FLAG + SIMULTAENOUS_INITIATE_FLAG},
            baseKey : {GeneratedKey(Peer(p), 0)},
            baseKeySignature :
                {calculateSignature(signer, GeneratedKey(Peer(p), 0)) :
                    signer \in PresentedIdentities(p)},
            ratchetKey : {GeneratedKey(Peer(p), 1)},
            identityKey : PresentedIdentities(p)] :
        /\ m.maxVersion >= 2 => m.version <= m.maxVersion
        /\ (m.maxVersion >= 2 /\ ~isInitiate(m)) => m.version = m.maxVersion
        /\ m.maxVersion < 2 =>
              m.version = 2 /\ m.baseKeySignature.signer = m.identityKey}

\* ------------------------------------------------------------------ actions
Init ==
    /\ sessionStore = [p \in Party |-> <<>>]
    /\ identityStore = [p \in Party |-> EmptyKey]
    /\ preKeyStore = [p \in Party |-> {1}]
    /\ signedPreKeyStore = [p \in Party |-> {7}]
    /\ record = [p \in Party |-> <<>>]
    /\ generated = [p \in Party |-> 0]
    /\ calls = 0
    /\ last = NoCall
    /\ net = {}
    /\ log = [p \in Party |-> <<>>]

ProcessPreKeyBundle(p, preKey) ==
    /\ record[p] = <<>>
    /\ LET r == process_PreKeyBundle(p, preKey)
       IN  \E n \in CrashPoints(r.ops) \cup {Len(r.ops)} :
              Finish(p, "process(PreKeyBundle)", preKey, r, n)
    /\ UNCHANGED <<record, net, log>>

ProcessInitiateExchange(p, sequence) ==
    /\ record[p] = <<>>
    /\ LET r == process_void(p, sequence)
       IN  Finish(p, "process()", sequence, r, Len(r.ops))
    /\ UNCHANGED <<record, net, log>>

ProcessKeyExchangeMessage(p, message) ==
    /\ record[p] = <<>>
    /\ LET r == process_KeyExchangeMessage(p, message)
       IN  \E n \in CrashPoints(r.ops) \cup {Len(r.ops)} :
              Finish(p, "process(KeyExchangeMessage)", message, r, n)
    /\ UNCHANGED <<record, net, log>>

\* The caller of the inbound path: it loads the record, hands it to the builder,
\* commits it and removes the returned one-time pre-key.  Access to one remote
\* address is serialized: no other entry point runs while the caller holds the
\* record.
LoadRecord(p) ==
    /\ record[p] = <<>>
    /\ record' = [record EXCEPT ![p] = <<loadSession(p)>>]
    /\ last' = [NoCall EXCEPT !.party = p, !.call = "loadSession"]
    /\ UNCHANGED <<stores, generated, calls, net, log>>

ProcessPreKeyWhisperMessage(p, message) ==
    /\ record[p] # <<>>
    /\ LET r == process_PreKeyWhisperMessage(p, record[p][1], message)
       IN  /\ Finish(p, "process(PreKeyWhisperMessage)", message, r, Len(r.ops))
           /\ record' = [record EXCEPT ![p] = <<r.rec>>]
    /\ UNCHANGED <<net, log>>

CommitRecord(p) ==
    /\ record[p] # <<>>
    /\ sessionStore[p] # record[p]
    /\ sessionStore' = [sessionStore EXCEPT ![p] = record[p]]
    /\ UNCHANGED <<identityStore, preKeyStore, signedPreKeyStore, record, generated,
                   calls, last, net, log>>

RemovePreKey(p) ==
    /\ last.party = p
    /\ last.call = "process(PreKeyWhisperMessage)"
    /\ last.err = "none"
    /\ last.retId \in preKeyStore[p]
    /\ preKeyStore' = [preKeyStore EXCEPT ![p] = @ \ {last.retId}]
    /\ UNCHANGED <<sessionStore, identityStore, signedPreKeyStore, record, generated,
                   calls, last, net, log>>

ReleaseRecord(p) ==
    /\ record[p] # <<>>
    /\ record' = [record EXCEPT ![p] = <<>>]
    /\ UNCHANGED <<stores, generated, calls, last, net, log>>

Next ==
    \/ \E p \in Local : \E preKey \in Bundles(p) :
          calls < MaxCalls /\ ProcessPreKeyBundle(p, preKey)
    \/ \E p \in Local : \E sequence \in SequenceNumbers :
          calls < MaxCalls /\ ProcessInitiateExchange(p, sequence)
    \/ \E p \in Local : \E message \in KeyExchangeMessages(p) :
          calls < MaxCalls /\ ProcessKeyExchangeMessage(p, message)
    \/ \E p \in Local : calls < MaxCalls /\ LoadRecord(p)
    \/ \E p \in Local : \E message \in PreKeyWhisperMessages(p) :
          calls < MaxCalls /\ ProcessPreKeyWhisperMessage(p, message)
    \/ \E p \in Local : CommitRecord(p)
    \/ \E p \in Local : RemovePreKey(p)
    \/ \E p \in Local : ReleaseRecord(p)

Spec == Init /\ [][Next]_vars

\* ------------------------------------------------------------------ two parties exchanging keys
\* Both parties run the builder against each other; the key-exchange messages
\* they return travel through net and are delivered in any order.
Started(p) == \E i \in 1..Len(log[p]) : log[p][i].kind = "start"

LogEntry(kind, err, message) ==
    [kind |-> kind, err |-> err, flags |-> message.flags,
     maxVersion |-> message.maxVersion]

KXStart(p, sequence) ==
    /\ ~Started(p)
    /\ LET r == process_void(p, sequence)
       IN  /\ Finish(p, "process()", sequence, r, Len(r.ops))
           /\ net' = net \cup {[to |-> Peer(p), message |-> r.retMsg]}
           /\ log' = [log EXCEPT ![p] = Append(@, LogEntry("start", r.err, r.retMsg))]
    /\ UNCHANGED record

KXReceive(p, packet) ==
    /\ packet.to = p
    /\ LET r == process_KeyExchangeMessage(p, packet.message)
       IN  /\ Finish(p, "process(KeyExchangeMessage)", packet.message, r, Len(r.ops))
           /\ net' = (net \ {packet}) \cup
                     (IF r.retMsg # EmptyKeyExchangeMessage
                      THEN {[to |-> Peer(p), message |-> r.retMsg]} ELSE {})
           /\ log' = [log EXCEPT ![p] =
                         Append(@, LogEntry(IF isInitiate(packet.message) THEN "initiate"
                                            ELSE "response", r.err, packet.message))]
    /\ UNCHANGED record

NextKX ==
    \/ \E p \in Party : \E sequence \in SequenceNumbers : KXStart(p, sequence)
    \/ \E p \in Party : \E packet \in net : KXReceive(p, packet)

SpecKX == Init /\ [][NextKX]_vars

\* ------------------------------------------------------------------ bundle, then first message
\* Alice ("A") establishes sessions from bundles Bob ("B") published and sends
\* her first message; Bob's caller loads the record, has the builder process
\* the message, commits and removes the pre-key.
MaxRoundTripCalls == 3

\* What Bob publishes: his identity, his signed pre-key with his signature, a
\* one-time pre-key; one of the two pre-keys may be missing.
HonestBundles(q) ==
    {b \in [registrationId : {RegistrationIdOf(q)}, preKeyId : {1},
            preKey : {PreKeyOf(q, 1), EmptyKey}, signedPreKeyId : {7},
            signedPreKey : {SignedPreKeyOf(q, 7), EmptyKey},
            signedPreKeySignature :
                {calculateSignature(IdentityKeyOf(q), SignedPreKeyOf(q, 7))},
            identityKey : {IdentityKeyOf(q)}] :
        b.signedPreKey # EmptyKey \/ b.preKey # EmptyKey}

\* The first message of a session established from a bundle: the session's
\* version, the sender's registration id and identity, and the unacknowledged
\* pre-key message's ids and base key, an absent pre-key id as MAX_VALUE.
FirstMessage(p, st) ==
    LET items == st.unacknowledgedPreKeyMessage[1]
    IN  [messageVersion |-> st.sessionVersion,
         registrationId |-> st.localRegistrationId,
         preKeyId |-> IF items.preKeyId = -1 THEN MAX_VALUE ELSE items.preKeyId,
         signedPreKeyId |-> items.signedPreKeyId,
         baseKey |-> items.baseKey,
         identityKey |-> getIdentityKeyPair(p)]

\* The directory hands a one-time pre-key out once.
RTEstablish(p, preKey) ==
    /\ calls < MaxRoundTripCalls
    /\ preKey.preKey # EmptyKey
          => \A i \in 1..Len(log[p]) : log[p][i].preKey = EmptyKey
    /\ LET r == process_PreKeyBundle(p, preKey)
       IN  Finish(p, "process(PreKeyBundle)", preKey, r, Len(r.ops))
    /\ log' = [log EXCEPT ![p] = Append(@, preKey)]
    /\ UNCHANGED <<record, net>>

RTSend(p) ==
    /\ sessionStore[p] # <<>>
    /\ sessionStore[p][1].sessionState.unacknowledgedPreKeyMessage # <<>>
    /\ LET packet == [to |-> Peer(p),
                      message |-> FirstMessage(p, sessionStore[p][1].sessionState)]
       IN  /\ packet \notin net
           /\ net' = net \cup {packet}
    /\ UNCHANGED <<stores, record, generated, calls, last, log>>

RTReceive(p, packet) ==
    /\ calls < MaxRoundTripCalls
    /\ packet.to = p
    /\ ProcessPreKeyWhisperMessage(p, packet.message)

NextRT ==
    \/ \E preKey \in HonestBundles("B") : RTEstablish("A", preKey)
    \/ RTSend("A")
    \/ LoadRecord("B")
    \/ \E packet \in net : RTReceive("B", packet)
    \/ CommitRecord("B")
    \/ RemovePreKey("B")
    \/ ReleaseRecord("B")

SpecRT == Init /\ [][NextRT]_vars

\* ------------------------------------------------------------------ claims
BuilderCall == calls' = calls + 1
TrustCheckedCalls ==
    {"process(PreKeyBundle)", "process(PreKeyWhisperMessage)", "process(KeyExchangeMessage)"}
Errors ==
    {"UntrustedIdentity", "InvalidKey", "InvalidKeyId", "InvalidMessage", "StaleKeyExchange"}

\* C1: once an identity is pinned for the remote name, a call of one of the three
\* entry points that presents another identity key throws UntrustedIdentity, its
\* only store operation is isTrustedIdentity, and no store and no record changes.
C1_TrustMonotonicity ==
    [][\A p \in Party :
          (/\ BuilderCall
           /\ last'.party = p
           /\ last'.call \in TrustCheckedCalls
           /\ identityStore[p] # EmptyKey
           /\ last'.input.identityKey # identityStore[p])
          => /\ last'.err = "UntrustedIdentity"
             /\ last'.ops = <<"isTrustedIdentity">>
             /\ stores' = stores
             /\ record' = record]_vars

C1_Witness ==
    /\ last.call = "process(PreKeyBundle)"
    /\ last.err = "UntrustedIdentity"
    /\ identityStore[last.party] # EmptyKey
    /\ last.input.identityKey # identityStore[last.party]

\* A second invocation on the record the first one left: the step is a call on the
\* inbound path that follows a successful one with no load in between, and the
\* message has the same version, base key and identity key.
SecondInvocation(p) ==
    /\ last.call = "process(PreKeyWhisperMessage)"
    /\ last.party = p
    /\ last.err = "none"
    /\ BuilderCall
    /\ last'.call = "process(PreKeyWhisperMessage)"
    /\ last'.party = p
    /\ last'.input.messageVersion = last.input.messageVersion
    /\ last'.input.baseKey = last.input.baseKey
    /\ last'.input.identityKey = last.input.identityKey

ReturnsAbsentUnchanged(p) ==
    /\ last'.err = "none"
    /\ last'.retId = NoPreKey
    /\ record'[p] = record[p]

\* C2 as stated: for version 2 and 3 alike, the second invocation with the same
\* (version, baseKey) returns absent and leaves the record as it was.
C2_AsStated ==
    [][\A p \in Party : SecondInvocation(p) => ReturnsAbsentUnchanged(p)]_vars

\* C2, amended: the second invocation returns absent and leaves the record as it
\* was for version 3, and for version 2 when by then the message's one-time
\* pre-key is gone from the pre-key store and a session is stored for the address.
C2_DuplicateEstablishment ==
    [][\A p \in Party :
          (/\ SecondInvocation(p)
           /\ \/ last'.input.messageVersion = 3
              \/ /\ last'.input.messageVersion = 2
                 /\ last'.input.preKeyId \notin preKeyStore[p]
                 /\ sessionStore[p] # <<>>)
          => ReturnsAbsentUnchanged(p)]_vars

\* A version-3 message with a real pre-key id returns absent only through the
\* duplicate guard: the record already holds the state of its base key.
C2_Witness ==
    /\ last.call = "process(PreKeyWhisperMessage)"
    /\ last.err = "none"
    /\ last.input.messageVersion = 3
    /\ last.input.preKeyId = 1
    /\ last.retId = NoPreKey
    /\ record[last.party][1].sessionState.aliceBaseKey = last.input.baseKey

\* C3: a call that ends in an error leaves the four stores as they were.
C3_ErrorLeavesStores ==
    [][(BuilderCall /\ last'.err \in Errors) => stores' = stores]_vars

\* processResponse reached the signature check that follows the initialization:
\* the response matched the pending exchange, which is still in the store.
C3_Witness ==
    /\ last.call = "process(KeyExchangeMessage)"
    /\ ~isInitiate(last.input)
    /\ last.err = "InvalidKey"
    /\ sessionStore[last.party] # <<>>
    /\ hasPendingKeyExchange(sessionStore[last.party][1].sessionState)
    /\ sessionStore[last.party][1].sessionState.pendingKeyExchange[1].sequence
          = last.input.sequence
    /\ sessionStore[last.party][1].previousStates = <<>>
    /\ identityStore[last.party] = EmptyKey

StoredBeforePinned(ops) ==
    \A i \in 1..Len(ops) :
        ops[i] = "saveIdentity" => \E j \in 1..(i - 1) : ops[j] = "storeSession"

\* C4 as stated: in every establishing operation, the inbound path with the
\* caller's commit included, the identity is never pinned while the session of
\* the operation is not in the session store.
C4_AsStated ==
    [][\A p \in Party :
          (BuilderCall /\ last'.party = p /\ identityStore'[p] # identityStore[p])
          => /\ sessionStore'[p] # <<>>
             /\ last'.call = "process(PreKeyWhisperMessage)"
                   => sessionStore'[p] = record'[p]]_vars

\* C4, amended: process(PreKeyBundle), processInitiate and processResponse store
\* the session before they pin the identity, and dying between the two leaves
\* the session stored and the pin untouched; the inbound path pins the identity
\* itself and stores no session.
C4_CommitOrder ==
    [][\A p \in Party :
          (BuilderCall /\ last'.party = p)
          => /\ last'.call \in {"process(PreKeyBundle)", "process(KeyExchangeMessage)"}
                => /\ StoredBeforePinned(last'.ops)
                   /\ identityStore'[p] # identityStore[p] => sessionStore'[p] # <<>>
                   /\ last'.err = "crash"
                         => /\ Has(last'.ops, "storeSession")
                            /\ sessionStore'[p] # <<>>
                            /\ identityStore' = identityStore
             /\ last'.call = "process(PreKeyWhisperMessage)"
                => /\ ~Has(last'.ops, "storeSession")
                   /\ sessionStore' = sessionStore]_vars

\* The process died between storeSession and saveIdentity.
C4_Witness ==
    /\ last.err = "crash"
    /\ sessionStore[last.party] # <<>>
    /\ identityStore[last.party] = EmptyKey

\* A trusted message that is no INITIATE arrives while the stored current state
\* has no pending key exchange, or one with another sequence number.
StaleResponseCall(p) ==
    /\ BuilderCall
    /\ last'.party = p
    /\ last'.call = "process(KeyExchangeMessage)"
    /\ identityStore[p] \in {EmptyKey, last'.input.identityKey}
    /\ ~HasFlag(last'.input.flags, INITIATE_FLAG)
    /\ \/ loadSession(p).sessionState.pendingKeyExchange = <<>>
       \/ loadSession(p).sessionState.pendingKeyExchange[1].sequence
             # last'.input.sequence

\* C5: such a call throws StaleKeyExchange unless the message is a response for a
\* simultaneous initiate, in which case it returns without a message; either way
\* the session store and the identity store are unchanged.
C5_StaleResponse ==
    [][\A p \in Party :
          StaleResponseCall(p)
          => /\ IF HasFlag(last'.input.flags, SIMULTAENOUS_INITIATE_FLAG)
                THEN last'.err = "none" /\ last'.retMsg = EmptyKeyExchangeMessage
                ELSE last'.err = "StaleKeyExchange"
             /\ sessionStore' = sessionStore
             /\ identityStore' = identityStore]_vars

\* A response was refused as stale although an exchange is pending: its sequence
\* number is another one.
C5_Witness ==
    /\ last.call = "process(KeyExchangeMessage)"
    /\ last.err = "StaleKeyExchange"
    /\ sessionStore[last.party] # <<>>
    /\ hasPendingKeyExchange(sessionStore[last.party][1].sessionState)
    /\ sessionStore[last.party][1].sessionState.pendingKeyExchange[1].sequence
          # last.input.sequence

\* The bundle passes the trust check and the signature check, and holds a key.
BundleAccepted(p, b) ==
    /\ identityStore[p] \in {EmptyKey, b.identityKey}
    /\ b.signedPreKey # EmptyKey
          => b.signedPreKeySignature = calculateSignature(b.identityKey, b.signedPreKey)
    /\ b.signedPreKey # EmptyKey \/ b.preKey # EmptyKey

C10_V2MissingPreKey ==
    [][\A p \in Party :
          (/\ BuilderCall
           /\ last'.party = p
           /\ last'.call = "process(PreKeyWhisperMessage)"
           /\ identityStore[p] \in {EmptyKey, last'.input.identityKey}
           /\ last'.input.messageVersion = 2
           /\ last'.input.preKeyId \notin preKeyStore[p])
          => IF sessionStore[p] # <<>>
             THEN /\ last'.err = "none"
                  /\ last'.retId = NoPreKey
                  /\ record' = record
                  /\ sessionStore' = sessionStore
             ELSE last'.err = "InvalidKeyId"]_vars

\* The pre-key the message names was in the store and has been removed.
C10_Witness ==
    /\ last.call = "process(PreKeyWhisperMessage)"
    /\ last.input.messageVersion = 2
    /\ last.input.preKeyId = 1
    /\ 1 \notin preKeyStore[last.party]
    /\ last.err = "none"
    /\ last.retId = NoPreKey

\* Each party has called process(), then processed the other's INITIATE, then the
\* other's response.
ExchangedInOrder ==
    \A p \in Party :
        /\ Len(log[p]) = 3
        /\ log[p][1].kind = "start"
        /\ log[p][2].kind = "initiate"
        /\ log[p][3].kind = "response"

\* C6: after such an exchange, in whatever order the messages were delivered, a
\* response carried the SIMULTANEOUS_INITIATE flag, no call failed, and both
\* parties have stored a current session of version min(maxVersion, 3) built from
\* the same two sets of base, ratchet and identity keys.
C6_SimultaneousInitiate ==
    ExchangedInOrder
    => /\ \E p \in Party : HasFlag(log[p][3].flags, SIMULTAENOUS_INITIATE_FLAG)
       /\ \A p \in Party : \A i \in 1..3 : log[p][i].err = "none"
       /\ \A p \in Party :
             /\ sessionStore[p] # <<>>
             /\ sessionStore[p][1].sessionState.sessionVersion
                   = (IF log[p][2].maxVersion < 3 THEN log[p][2].maxVersion ELSE 3)
             /\ Cardinality(sessionStore[p][1].sessionState.root) = 2
       /\ sessionStore["A"][1].sessionState.root = sessionStore["B"][1].sessionState.root
       /\ sessionStore["A"][1].sessionState.sessionVersion
             = sessionStore["B"][1].sessionState.sessionVersion

C6_Witness ==
    /\ ExchangedInOrder
    /\ net = {}
    /\ sessionStore["A"][1].sessionState.pendingKeyExchange = <<>>
    /\ sessionStore["A"][1].previousStates # <<>>

\* Bob's builder processes a first message of Alice's that is in flight, and the
\* pre-keys the message names are in Bob's stores.
BobProcessesFirstMessage(packet) ==
    /\ BuilderCall
    /\ last'.party = "B"
    /\ last'.call = "process(PreKeyWhisperMessage)"
    /\ last'.input = packet.message
    /\ packet.message.preKeyId \in preKeyStore["B"] \cup {MAX_VALUE}

SessionStatesOf(rec) ==
    {rec.sessionState} \cup {rec.previousStates[i] : i \in 1..Len(rec.previousStates)}

V3ReachesParameters(p) ==
    /\ BuilderCall
    /\ last'.party = p
    /\ last'.call = "process(PreKeyWhisperMessage)"
    /\ identityStore[p] \in {EmptyKey, last'.input.identityKey}
    /\ last'.input.messageVersion = 3
    /\ last'.input.signedPreKeyId \in signedPreKeyStore[p]
    /\ ~hasSessionState(record[p][1], 3, last'.input.baseKey)

\* The one-time pre-key in Bob's contribution to the session's key material.
OneTimePreKeysOf(st) == {c.oneTime : c \in {d \in st.root : d.role = "bob"}}

\* C11: such a message whose pre-key id is MAX_VALUE establishes the session
\* with no loadPreKey and no one-time pre-key in the Bob parameters and returns
\* absent; one whose pre-key id is in the pre-key store has that pre-key loaded
\* and set, and the id is returned.
C11_V3OneTimePreKey ==
    [][\A p \in Party :
          V3ReachesParameters(p)
          => LET m == last'.input
                 st == record'[p][1].sessionState
             IN  /\ m.preKeyId = MAX_VALUE
                    => /\ last'.err = "none"
                       /\ last'.retId = NoPreKey
                       /\ ~Has(last'.ops, "loadPreKey")
                       /\ st.aliceBaseKey = m.baseKey
                       /\ OneTimePreKeysOf(st) = {EmptyKey}
                 /\ m.preKeyId \in preKeyStore[p]
                    => /\ last'.err = "none"
                       /\ last'.retId = m.preKeyId
                       /\ Has(last'.ops, "loadPreKey")
                       /\ st.aliceBaseKey = m.baseKey
                       /\ OneTimePreKeysOf(st) = {PreKeyOf(p, m.preKeyId)}]_vars

\* The half of C11 the code keeps: a pre-key id that is in the store.
C11_RealIdHalf ==
    [][\A p \in Party :
          (V3ReachesParameters(p) /\ last'.input.preKeyId \in preKeyStore[p])
          => /\ last'.err = "none"
             /\ last'.retId = last'.input.preKeyId
             /\ Has(last'.ops, "loadPreKey")
             /\ OneTimePreKeysOf(record'[p][1].sessionState)
                   = {PreKeyOf(p, last'.input.preKeyId)}]_vars

\* A trusted version-2 first message whose pre-key id is the absent sentinel.
V2WithoutPreKeyId(p) ==
    /\ BuilderCall
    /\ last'.party = p
    /\ last'.call = "process(PreKeyWhisperMessage)"
    /\ identityStore[p] \in {EmptyKey, last'.input.identityKey}
    /\ last'.input.messageVersion = 2
    /\ last'.input.preKeyId = MAX_VALUE

\* C12: such a message fails with InvalidKeyId whether or not a session is stored
\* for the address; the call never returns absent and the record gets no session.
C12_V2AbsentPreKeyId ==
    [][\A p \in Party :
          V2WithoutPreKeyId(p)
          => /\ last'.err = "InvalidKeyId"
             /\ record' = record]_vars

\* The part of C12 the code keeps: no session is initialized from such a message,
\* and it fails with InvalidKeyId while no session is stored for the address.
C12_NoSessionHalf ==
    [][\A p \in Party :
          V2WithoutPreKeyId(p)
          => /\ record' = record
             /\ sessionStore[p] = <<>> => last'.err = "InvalidKeyId"]_vars

\* The current session state stored for the remote address holds a pending key
\* exchange.
PendingStored(store, p) ==
    store[p] # <<>> /\ hasPendingKeyExchange(store[p][1].sessionState)

\* The step is a call of process(KeyExchangeMessage) that got as far as storing
\* the session, for a response or for an INITIATE.
AcceptedResponse(p) ==
    /\ BuilderCall
    /\ last'.party = p
    /\ last'.call = "process(KeyExchangeMessage)"
    /\ ~isInitiate(last'.input)
    /\ Has(last'.ops, "storeSession")

AcceptedInitiate(p) ==
    /\ BuilderCall
    /\ last'.party = p
    /\ last'.call = "process(KeyExchangeMessage)"
    /\ isInitiate(last'.input)
    /\ Has(last'.ops, "storeSession")

\* The step is a process(PreKeyBundle) that stored its session, or the caller's
\* commit of a record in which the inbound path has archived the stored state and
\* installed a session.
NonExchangeEstablishment(p) ==
    \/ /\ BuilderCall
       /\ last'.party = p
       /\ last'.call = "process(PreKeyBundle)"
       /\ Has(last'.ops, "storeSession")
    \/ /\ calls' = calls
       /\ sessionStore'[p] # sessionStore[p]
       /\ sessionStore'[p] = record[p]
       /\ record[p][1].sessionState.root # {}
       /\ \E i \in 1..Len(record[p][1].previousStates) :
             record[p][1].previousStates[i] = loadSession(p).sessionState

\* A stored pending key exchange is gone from the stored current state after the
\* step.
PendingRemoved(p) == PendingStored(sessionStore, p) /\ ~PendingStored(sessionStore', p)

\* C13 as stated: a stored pending key exchange is removed only by an accepted
\* response that carries its sequence number or by a successful non-exchange
\* establishment, and each of the two removes it.
C13_AsStated ==
    [][\A p \in Party :
          /\ PendingRemoved(p)
             => \/ /\ AcceptedResponse(p)
                   /\ last'.input.sequence
                         = sessionStore[p][1].sessionState.pendingKeyExchange[1].sequence
                \/ NonExchangeEstablishment(p)
          /\ (AcceptedResponse(p) \/ NonExchangeEstablishment(p))
             => ~PendingStored(sessionStore', p)]_vars

\* C13, amended: a stored pending key exchange is removed only by an accepted
\* response that carries its sequence number, by an accepted INITIATE, or by a
\* successful non-exchange establishment, and each of the three removes it.
C13_PendingLifetime ==
    [][\A p \in Party :
          /\ PendingRemoved(p)
             => \/ /\ AcceptedResponse(p)
                   /\ last'.input.sequence
                         = sessionStore[p][1].sessionState.pendingKeyExchange[1].sequence
                \/ AcceptedInitiate(p)
                \/ NonExchangeEstablishment(p)
          /\ (AcceptedResponse(p) \/ AcceptedInitiate(p) \/ NonExchangeEstablishment(p))
             => ~PendingStored(sessionStore', p)]_vars

\* The response to a pending exchange was accepted: the state that held the
\* pending exchange with the response's sequence number is now the newest
\* archived state, and the current state holds none.
C13_Witness ==
    /\ last.call = "process(KeyExchangeMessage)"
    /\ ~isInitiate(last.input)
    /\ last.err = "none"
    /\ Has(last.ops, "storeSession")
    /\ ~PendingStored(sessionStore, last.party)
    /\ sessionStore[last.party][1].previousStates # <<>>
    /\ hasPendingKeyExchange(sessionStore[last.party][1].previousStates[1])
    /\ sessionStore[last.party][1].previousStates[1].pendingKeyExchange[1].sequence
          = last.input.sequence

\* C14: process() returns a KeyExchangeMessage of version 2 whose flags are
\* exactly INITIATE and whose base and ratchet keys are two key pairs generated
\* in the call; the session it stores has a pending key exchange with the
\* message's sequence number and those two key pairs, and is otherwise the
\* record that was stored before (same current state, same archive); the
\* identity store is unchanged.
C14_OutboundInitiate ==
    [][\A p \in Party :
          (BuilderCall /\ last'.party = p /\ last'.call = "process()")
          => LET m == last'.retMsg
                 before == loadSession(p)
             IN  /\ last'.err = "none"
                 /\ m.version = 2
                 /\ m.flags = INITIATE_FLAG
                 /\ m.sequence = last'.input
                 /\ m.baseKey = GeneratedKey(p, generated[p])
                 /\ m.ratchetKey = GeneratedKey(p, generated[p] + 1)
                 /\ generated'[p] = generated[p] + 2
                 /\ m.identityKey = IdentityKeyOf(p)
                 /\ m.baseKeySignature = calculateSignature(IdentityKeyOf(p), m.baseKey)
                 /\ sessionStore'[p] # <<>>
                 /\ LET after == sessionStore'[p][1]
                    IN  /\ after.sessionState.pendingKeyExchange =
                              <<[sequence |-> m.sequence, baseKey |-> m.baseKey,
                                 ratchetKey |-> m.ratchetKey,
                                 identityKey |-> IdentityKeyOf(p)]>>
                        /\ after.previousStates = before.previousStates
                        /\ [after.sessionState EXCEPT !.pendingKeyExchange = <<>>]
                              = [before.sessionState EXCEPT !.pendingKeyExchange = <<>>]
                 /\ identityStore' = identityStore]_vars

\* process() ran on an established session: the current state still has its
\* version and key material, next to the pending exchange, and the pin is there.
C14_Witness ==
    /\ last.call = "process()"
    /\ sessionStore[last.party][1].sessionState.sessionVersion = 3
    /\ sessionStore[last.party][1].sessionState.root # {}
    /\ hasPendingKeyExchange(sessionStore[last.party][1].sessionState)
    /\ sessionStore[last.party][1].previousStates = <<>>
    /\ identityStore[last.party] # EmptyKey

\* C15: process(sessionRecord, PreKeyWhisperMessage) issues no storeSession,
\* deleteSession or removePreKey; whatever its outcome, the session store, the
\* pre-key store and the signed pre-key store are as they were at entry; the
\* identity pin changes only when the call succeeds, and then to the message's
\* identity key.
C15_CallerOwnsCommit ==
    [][\A p \in Party :
          (BuilderCall /\ last'.party = p /\ last'.call = "process(PreKeyWhisperMessage)")
          => /\ \A i \in 1..Len(last'.ops) :
                   last'.ops[i] \notin {"storeSession", "deleteSession", "removePreKey"}
             /\ sessionStore' = sessionStore
             /\ preKeyStore' = preKeyStore
             /\ signedPreKeyStore' = signedPreKeyStore
             /\ last'.err # "none" => identityStore' = identityStore
             /\ identityStore' # identityStore
                   => /\ last'.err = "none"
                      /\ identityStore' = [identityStore EXCEPT ![p] = last'.input.identityKey]]_vars

\* The call installed a session in the record and returned the id of the
\* one-time pre-key: the key is still in the pre-key store, no session is stored,
\* and the identity is pinned.
C15_Witness ==
    /\ last.call = "process(PreKeyWhisperMessage)"
    /\ last.err = "none"
    /\ last.retId = 1
    /\ 1 \in preKeyStore[last.party]
    /\ sessionStore[last.party] = <<>>
    /\ record[last.party][1].sessionState.aliceBaseKey = last.input.baseKey
    /\ identityStore[last.party] = last.input.identityKey

\* The step is a process(KeyExchangeMessage) of an INITIATE message that ended
\* without an error.
InitiateAccepted(p) ==
    /\ BuilderCall
    /\ last'.party = p
    /\ last'.call = "process(KeyExchangeMessage)"
    /\ isInitiate(last'.input)
    /\ last'.err = "none"

\* What our side contributes to a session of an interactive exchange.
OurContribution(baseKey, ratchetKey, identityKey) ==
    Contribution("symmetric", baseKey, ratchetKey, identityKey, EmptyKey, EmptyKey)

\* C16: the response to an accepted INITIATE has the RESPONSE flag and the
\* sequence number of the INITIATE; it has the SIMULTANEOUS_INITIATE flag exactly
\* if the session state loaded at entry had a pending key exchange, and then the
\* base, ratchet and identity keys of the stored session and of the response are
\* those of the pending exchange; otherwise they are two key pairs generated in
\* the call and the local identity.
C16_InitiateResponse ==
    [][\A p \in Party :
          InitiateAccepted(p)
          => LET m == last'.retMsg
                 loaded == loadSession(p).sessionState
                 st == sessionStore'[p][1].sessionState
             IN  /\ HasFlag(m.flags, RESPONSE_FLAG)
                 /\ ~HasFlag(m.flags, INITIATE_FLAG)
                 /\ m.sequence = last'.input.sequence
                 /\ HasFlag(m.flags, SIMULTAENOUS_INITIATE_FLAG)
                       <=> hasPendingKeyExchange(loaded)
                 /\ OurContribution(m.baseKey, m.ratchetKey, m.identityKey) \in st.root
                 /\ m.baseKeySignature = calculateSignature(m.identityKey, m.baseKey)
                 /\ IF hasPendingKeyExchange(loaded)
                    THEN /\ m.baseKey = loaded.pendingKeyExchange[1].baseKey
                         /\ m.ratchetKey = loaded.pendingKeyExchange[1].ratchetKey
                         /\ m.identityKey = loaded.pendingKeyExchange[1].identityKey
                         /\ generated' = generated
                    ELSE /\ m.baseKey = GeneratedKey(p, generated[p])
                         /\ m.ratchetKey = GeneratedKey(p, generated[p] + 1)
                         /\ m.identityKey = IdentityKeyOf(p)
                         /\ generated'[p] = generated[p] + 2]_vars

\* An INITIATE met a pending key exchange: the response carries the flag and the
\* base key of the exchange, which is now in the newest archived state.
C16_Witness ==
    /\ last.call = "process(KeyExchangeMessage)"
    /\ isInitiate(last.input)
    /\ last.err = "none"
    /\ HasFlag(last.retMsg.flags, SIMULTAENOUS_INITIATE_FLAG)
    /\ sessionStore[last.party][1].previousStates # <<>>
    /\ hasPendingKeyExchange(sessionStore[last.party][1].previousStates[1])
    /\ sessionStore[last.party][1].previousStates[1].pendingKeyExchange[1].baseKey
          = last.retMsg.baseKey

\* C17: when process(sessionRecord, PreKeyWhisperMessage) fails with
\* InvalidKeyId, the record is as it was at entry (nothing archived, nothing
\* initialized, registration ids and Alice-base-key as before) and the identity
\* store is unchanged.
C17_InvalidKeyIdLeavesRecord ==
    [][\A p \in Party :
          (/\ BuilderCall
           /\ last'.party = p
           /\ last'.call = "process(PreKeyWhisperMessage)"
           /\ last'.err = "InvalidKeyId")
          => /\ record' = record
             /\ identityStore' = identityStore
             /\ ~Has(last'.ops, "saveIdentity")]_vars

\* The one-time pre-key was missing after the signed pre-key had been loaded, in
\* a call on a record that holds an established session and that no pin covers.
C17_Witness ==
    /\ last.call = "process(PreKeyWhisperMessage)"
    /\ last.err = "InvalidKeyId"
    /\ last.input.messageVersion = 3
    /\ Has(last.ops, "loadPreKey")
    /\ record[last.party][1].sessionState.sessionVersion = 3
    /\ record[last.party][1].sessionState.aliceBaseKey # last.input.baseKey
    /\ record[last.party][1].previousStates = <<>>
    /\ identityStore[last.party] = EmptyKey

\* The step is a process(KeyExchangeMessage) that stored a session of version 3
\* or higher.
StoresExchangedV3Session(p) ==
    /\ BuilderCall
    /\ last'.party = p
    /\ last'.call = "process(KeyExchangeMessage)"
    /\ Has(last'.ops, "storeSession")
    /\ sessionStore'[p][1].sessionState.sessionVersion >= 3

\* C18: every session of version 3 or higher that processInitiate or
\* processResponse stores comes from a message whose base-key signature verifies
\* under the message's identity key.
C18_ExchangeSignatureVerified ==
    [][\A p \in Party :
          StoresExchangedV3Session(p)
          => verifySignature(last'.input.identityKey, last'.input.baseKey,
                             last'.input.baseKeySignature)]_vars

\* The part of C18 the code keeps: sessions stored by processResponse, and
\* sessions stored by processInitiate for a message of version 3 or higher.
C18_ResponseHalf ==
    [][\A p \in Party :
          (/\ StoresExchangedV3Session(p)
           /\ ~isInitiate(last'.input) \/ last'.input.version >= 3)
          => verifySignature(last'.input.identityKey, last'.input.baseKey,
                             last'.input.baseKeySignature)]_vars

\* saveIdentity comes after isTrustedIdentity in the operations of a call.
TrustedBeforePinned(ops) ==
    \A i \in 1..Len(ops) :
        ops[i] = "saveIdentity" => \E j \in 1..(i - 1) : ops[j] = "isTrustedIdentity"

\* C19: a call that issues saveIdentity has issued isTrustedIdentity before, for
\* the same key, which was trusted at entry, and returns without an error; and
\* an identity that is pinned for the remote name is never replaced by another.
C19_PinNeverChanges ==
    [][\A p \in Party :
          /\ (BuilderCall /\ last'.party = p /\ Has(last'.ops, "saveIdentity"))
             => /\ TrustedBeforePinned(last'.ops)
                /\ isTrustedIdentity(p, last'.input.identityKey)
                /\ identityStore'[p] = last'.input.identityKey
                /\ last'.err = "none"
          /\ identityStore'[p] # identityStore[p]
             => /\ identityStore[p] = EmptyKey
                /\ BuilderCall
                /\ last'.party = p
                /\ Has(last'.ops, "saveIdentity")]_vars

\* The inbound path met a message it had processed before: the identity was
\* pinned by the first call, and the second has saved the same key again.
C19_Witness ==
    /\ last.call = "process(PreKeyWhisperMessage)"
    /\ last.err = "none"
    /\ last.input.messageVersion = 3
    /\ last.retId = NoPreKey
    /\ last.ops = <<"isTrustedIdentity", "saveIdentity">>
    /\ identityStore[last.party] = last.input.identityKey

\* The session states that have been initialized.
InitializedStatesOf(seq) ==
    IF seq = <<>> THEN {} ELSE {st \in SessionStatesOf(seq[1]) : st.root # {}}

\* C20: every session state the builder has initialized, in the session store or
\* in the caller's record, has version 2 or 3, and a first message of another
\* version than 2 or 3 leaves the record as it was.
C20_SessionVersions ==
    [][\A p \in Party :
          /\ \A st \in InitializedStatesOf(sessionStore'[p]) \cup InitializedStatesOf(record'[p]) :
                st.sessionVersion \in {2, 3}
          /\ (/\ BuilderCall
              /\ last'.party = p
              /\ last'.call = "process(PreKeyWhisperMessage)"
              /\ last'.input.messageVersion \notin {2, 3})
             => /\ last'.err \in {"InvalidMessage", "UntrustedIdentity"}
                /\ record' = record]_vars

\* The part of C20 the code keeps: process(PreKeyBundle) and the inbound path
\* initialize sessions of version 2 or 3 only, and so does an interactive
\* exchange whose message names a maxVersion of at least 2.
C20_BoundedBelowHalf ==
    [][\A p \in Party :
          (/\ BuilderCall
           /\ last'.party = p
           /\ last'.call = "process(KeyExchangeMessage)" => last'.input.maxVersion >= 2)
          => /\ sessionStore'[p] # <<>> /\ sessionStore'[p] # sessionStore[p]
                => sessionStore'[p][1].sessionState.sessionVersion
                      \in {2, 3, loadSession(p).sessionState.sessionVersion}
             /\ record[p] # <<>> /\ record'[p] # record[p]
                => record'[p][1].sessionState.sessionVersion
                      \in {2, 3, record[p][1].sessionState.sessionVersion}
             /\ last'.call = "process(PreKeyWhisperMessage)"
                   /\ last'.input.messageVersion \notin {2, 3}
                => record' = record]_vars

====
